---- MODULE Spec2Model ----
(***************************************************************************)
(* Model of object_filtering/filter_node.py: the SmallObjFilter node.      *)
(*                                                                         *)
(* A Python float read from a message is a record [nan, v]: nan = TRUE is   *)
(* the IEEE not-a-number, otherwise the value is v eighths of a metre.     *)
(* Every such value is a double exactly, and sums and differences of them  *)
(* are exact in double arithmetic, so integer arithmetic on v is what the  *)
(* code computes.  A decimal literal of the code (0.9, 0.1, 0.2) is not on *)
(* this grid: it is kept as a number of tenths, and a comparison with it   *)
(* is decided exactly (no multiple of 1/8 lies between n/10 and the double *)
(* nearest to n/10).  Comparisons with a NaN operand are false and         *)
(* arithmetic on a NaN operand yields NaN, as in Python.                   *)
(***************************************************************************)
EXTENDS Integers, Sequences, FiniteSets, TLC

VARIABLES
    size_threshold,    \* self.size_threshold
    max_objects,       \* self.max_objects
    queue,             \* frames delivered to the subscription, not yet dispatched
    arrived,           \* number of frames delivered so far (used as header stamp)
    pc,                \* position of the executor: "idle", "loop", "publish", "markers", "raised"
    msg,               \* the cb argument of the current (or last) invocation
    idx,               \* 1-based position of the for loop in msg.objects
    filtered_objects,  \* the local list of cb
    pub_log,           \* messages published on /obj_det/small_objects
    marker_log,        \* messages published on /obj_det/small_objects/markers
    examined,          \* history: indices of msg.objects the loop body has read in this invocation
    n_pub,             \* history: publications on the frame topic in this invocation
    n_marker_pub,      \* history: publications on the marker topic in this invocation
    done_log           \* history: one record per completed invocation

vars == <<size_threshold, max_objects, queue, arrived, pc, msg, idx,
          filtered_objects, pub_log, marker_log, examined, n_pub,
          n_marker_pub, done_log>>

-----------------------------------------------------------------------------
(* Bounds of the model *)

MaxShortLen == 3
MaxRun == 11
MaxArrivals == 3

-----------------------------------------------------------------------------
(* Program constants *)

\* 0.9, in tenths of a metre
SIZE_THRESHOLD == 9
MAX_OBJECTS == 10
QUEUE_DEPTH == 10
CORNER_COUNT == 8

-----------------------------------------------------------------------------
(* Python floats *)

\* the grid of the message floats: eighths of a metre
UnitsPerMetre == 8

F(n) == [nan |-> FALSE, v |-> n]
NaN == [nan |-> TRUE, v |-> 0]

isnan(x) == x.nan

FloatLt(a, b) == ~a.nan /\ ~b.nan /\ a.v < b.v
FloatGt(a, b) == ~a.nan /\ ~b.nan /\ a.v > b.v
FloatSub(a, b) == IF a.nan \/ b.nan THEN NaN ELSE F(a.v - b.v)

\* a < t / 10.0 for a float a and a decimal literal of t tenths
FloatLtTenths(a, t) == ~a.nan /\ a.v * 10 < t * UnitsPerMetre

\* builtin max over a non-empty list: keeps the first item and replaces it
\* only by an item that compares greater
RECURSIVE PyMaxFrom(_, _, _)
PyMaxFrom(s, i, cur) ==
    IF i > Len(s) THEN cur
    ELSE PyMaxFrom(s, i + 1, IF FloatGt(s[i], cur) THEN s[i] ELSE cur)

PyMax(s) == PyMaxFrom(s, 2, s[1])

\* builtin min over a non-empty list
RECURSIVE PyMinFrom(_, _, _)
PyMinFrom(s, i, cur) ==
    IF i > Len(s) THEN cur
    ELSE PyMinFrom(s, i + 1, IF FloatLt(s[i], cur) THEN s[i] ELSE cur)

PyMin(s) == PyMinFrom(s, 2, s[1])

-----------------------------------------------------------------------------
(* str() of an int, and the f-string of the text marker *)

Digit == <<"0", "1", "2", "3", "4", "5", "6", "7", "8", "9">>

RECURSIVE NatToStr(_)
NatToStr(n) ==
    IF n < 10 THEN Digit[n + 1]
    ELSE NatToStr(n \div 10) \o Digit[(n % 10) + 1]

IntToStr(n) == IF n < 0 THEN "-" \o NatToStr(0 - n) ELSE NatToStr(n)

FormatText(obj) == obj.label \o " (id=" \o IntToStr(obj.label_id) \o ")"

-----------------------------------------------------------------------------
(* Input data: detected objects and frames *)

Kp(x, y, z) == [kp |-> <<F(x), F(y), F(z)>>]

\* the 8 corners of an axis-aligned box with its lowest vertex at (ox, oy, oz)
BoxAt(ox, oy, oz, lx, ly, lz) ==
    << Kp(ox, oy, oz),           Kp(ox + lx, oy, oz),
       Kp(ox + lx, oy + ly, oz), Kp(ox, oy + ly, oz),
       Kp(ox, oy, oz + lz),           Kp(ox + lx, oy, oz + lz),
       Kp(ox + lx, oy + ly, oz + lz), Kp(ox, oy + ly, oz + lz) >>

Box(lx, ly, lz) == BoxAt(0, 0, 0, lx, ly, lz)

Obj(label, label_id, position, dims, corners) ==
    [label |-> label, label_id |-> label_id, position |-> position,
     dimensions_3d |-> dims, corners |-> corners]

Dims(lx, ly, lz) == <<F(lx), F(ly), F(lz)>>

\* 0.5 x 0.5 x 0.5 at (1, 1, 1)
Cup == Obj("cup", 12, <<F(8), F(8), F(8)>>, Dims(4, 4, 4), Box(4, 4, 4))
\* 0.875 x 0.875 x 0.875, the largest extent of the grid below 0.9, away from
\* the origin (x from 0.375 to 1.25, y from -2.5 to -1.625)
Ball == Obj("ball", -3, <<F(0), F(16), F(3)>>, Dims(7, 7, 7),
            BoxAt(3, -20, 0, 7, 7, 7))
\* 1.0 x 0.25 x 0.25, the smallest extent of the grid not below 0.9
Shelf == Obj("shelf", 2, <<F(8), F(8), F(8)>>, Dims(8, 2, 2), Box(8, 2, 2))
\* 2.0 x 1.0 x 0.75
Car == Obj("car", 3, <<F(24), F(0), F(0)>>, Dims(16, 8, 6), Box(16, 8, 6))
Ghost == Obj("ghost", 4, <<NaN, F(0), F(0)>>, Dims(4, 4, 4), Box(4, 4, 4))
Six == Obj("six", 5, <<F(8), F(8), F(8)>>, Dims(4, 4, 4),
           SubSeq(Box(4, 4, 4), 1, 6))
Empty == Obj("empty", 6, <<F(8), F(8), F(8)>>, Dims(4, 4, 4), <<>>)
\* a 0.25 x 5.0 x 0.25 box whose first corner has a not-a-number y coordinate
Wall == Obj("wall", 7, <<F(8), F(8), F(8)>>, Dims(2, 40, 2),
            [Box(2, 40, 2) EXCEPT ![1] = [kp |-> <<F(0), NaN, F(0)>>]])
\* a 0.25 x 0.25 x 0.25 box whose first corner has a not-a-number x coordinate
Fog == Obj("fog", 8, <<F(8), F(8), F(8)>>, Dims(2, 2, 2),
           [Box(2, 2, 2) EXCEPT ![1] = [kp |-> <<NaN, F(0), F(0)>>]])

Catalog == {Cup, Ball, Shelf, Car, Ghost, Six, Empty, Wall, Fog}

\* the i-th object of a run of small objects
Item(i) == Obj("item", i, <<F(i), F(0), F(0)>>, Dims(4, 4, 4), Box(4, 4, 4))

Run(n) == [i \in 1..n |-> Item(i)]

SeqsUpTo(S, n) == UNION {[1..k -> S] : k \in 0..n}

ShortFrames == SeqsUpTo(Catalog, MaxShortLen)

LongFrames ==
    {pre \o Run(n) \o post :
        pre \in SeqsUpTo(Catalog, 1), post \in SeqsUpTo(Catalog, 1),
        n \in (MaxRun - 2)..MaxRun}

Frames == ShortFrames \cup LongFrames

StreamFrames == {<<>>, <<Cup>>, <<Car, Ball>>, <<Ghost, Shelf>>}

Header(n) == [stamp |-> n]

ObjectsStamped(header, objects) == [header |-> header, objects |-> objects]

-----------------------------------------------------------------------------
(* The filtering pass of cb *)

AnyNaN(position) == \E i \in 1..Len(position) : isnan(position[i])

MalformedBox_m(corners) == Len(corners) > CORNER_COUNT
MalformedBox(corners) == Len(corners) # CORNER_COUNT

Axis(corners, a) == [i \in 1..Len(corners) |-> corners[i].kp[a]]

Extent(corners, a) == FloatSub(PyMax(Axis(corners, a)), PyMin(Axis(corners, a)))

\* max(length, width, height)
MaxExtent(corners) ==
    PyMax(<<Extent(corners, 1), Extent(corners, 2), Extent(corners, 3)>>)

IsSmall(corners, threshold) == FloatLtTenths(MaxExtent(corners), threshold)

AppendObj_m(list, obj) == <<obj>> \o list
AppendObj(list, obj) == Append(list, obj)

CapReached_m(list, maximum) == Len(list) > maximum
CapReached(list, maximum) == Len(list) >= maximum

NewFilteredObjects_m(old) == old
NewFilteredObjects(old) == <<>>

\* the outcome of one pass through the loop body on obj:
\* "skip" (continue), "raise" (max() of an empty list), "keep" or "drop"
BodyOutcome(obj) ==
    IF AnyNaN(obj.position) THEN "skip"
    ELSE IF MalformedBox(obj.corners) THEN "skip"
    ELSE IF Len(obj.corners) = 0 THEN "raise"
    ELSE IF IsSmall(obj.corners, size_threshold) THEN "keep"
    ELSE "drop"

-----------------------------------------------------------------------------
(* The output messages of cb *)

HasOutput_m(list) == TRUE
HasOutput(list) == list # <<>>

OutMsg_m(m, list) == ObjectsStamped(Header(0), list)
OutMsg(m, list) == ObjectsStamped(m.header, list)

CubeId(i) == i * 2

TextId_m(i) == i + 1
TextId(i) == i * 2 + 1

\* a decimal literal of the code, t tenths: the double nearest to t / 10
Literal(t) == [nan |-> FALSE, tenths |-> t]

\* float(z) + float(dz) / 2.0 + 0.1: the first sum is exact, a number of
\* sixteenths of a metre; the result is the double sum of it and the literal
TextZ(z, dz) ==
    IF z.nan \/ dz.nan THEN NaN
    ELSE [nan |-> FALSE, sixteenths |-> 2 * z.v + dz.v, plus |-> Literal(1)]

\* the constant fields orientation and colour are left out
CubeMarker(header, i, obj) ==
    [header |-> header, ns |-> "small_objects", id |-> CubeId(i),
     type |-> "CUBE", action |-> "ADD",
     position |-> obj.position, scale |-> obj.dimensions_3d, text |-> ""]

TextMarker(header, i, obj) ==
    [header |-> header, ns |-> "small_objects_text", id |-> TextId(i),
     type |-> "TEXT_VIEW_FACING", action |-> "ADD",
     position |-> <<obj.position[1], obj.position[2],
                    TextZ(obj.position[3], obj.dimensions_3d[3])>>,
     scale |-> <<F(0), F(0), Literal(2)>>,
     text |-> FormatText(obj)]

\* enumerate(filtered_objects) is 0-based
MarkerArray(header, list) ==
    [k \in 1..(2 * Len(list)) |->
        IF k % 2 = 1 THEN CubeMarker(header, (k - 1) \div 2, list[(k + 1) \div 2])
        ELSE TextMarker(header, (k - 2) \div 2, list[k \div 2])]

-----------------------------------------------------------------------------
(* The node *)

NoMsg == ObjectsStamped(Header(0), <<>>)

NodeInit ==
    /\ size_threshold = SIZE_THRESHOLD
    /\ max_objects = MAX_OBJECTS
    /\ pc = "idle"
    /\ msg = NoMsg
    /\ idx = 1
    /\ filtered_objects = <<>>
    /\ pub_log = <<>>
    /\ marker_log = <<>>
    /\ examined = {}
    /\ n_pub = 0
    /\ n_marker_pub = 0
    /\ done_log = <<>>

\* the node after construction, no frame delivered yet
Init ==
    /\ NodeInit
    /\ queue = <<>>
    /\ arrived = 0

\* the node after construction with one frame waiting in the subscription
InitFrame ==
    /\ NodeInit
    /\ \E f \in Frames : queue = <<ObjectsStamped(Header(1), f)>>
    /\ arrived = 1

\* the subscription keeps the last QUEUE_DEPTH frames
Enqueue(q, m) ==
    IF Len(q) >= QUEUE_DEPTH THEN Append(Tail(q), m) ELSE Append(q, m)

Dequeue_m(q) == [item |-> q[Len(q)], rest |-> SubSeq(q, 1, Len(q) - 1)]
Dequeue(q) == [item |-> Head(q), rest |-> Tail(q)]

\* the middleware delivers a frame to the subscription
Arrive ==
    /\ arrived < MaxArrivals
    /\ \E f \in StreamFrames :
          queue' = Enqueue(queue, ObjectsStamped(Header(arrived + 1), f))
    /\ arrived' = arrived + 1
    /\ UNCHANGED <<size_threshold, max_objects, pc, msg, idx, filtered_objects,
                   pub_log, marker_log, examined, n_pub, n_marker_pub, done_log>>

\* spin dispatches cb on the oldest waiting frame; cb starts with an empty list
Take ==
    /\ pc = "idle"
    /\ queue # <<>>
    /\ msg' = Dequeue(queue).item
    /\ queue' = Dequeue(queue).rest
    /\ filtered_objects' = NewFilteredObjects(filtered_objects)
    /\ idx' = 1
    /\ examined' = {}
    /\ n_pub' = 0
    /\ n_marker_pub' = 0
    /\ pc' = IF Len(Dequeue(queue).item.objects) = 0 THEN "publish" ELSE "loop"
    /\ UNCHANGED <<size_threshold, max_objects, arrived, pub_log, marker_log,
                   done_log>>

\* one pass through the body of "for obj in msg.objects"
LoopStep ==
    /\ pc = "loop"
    /\ idx <= Len(msg.objects)
    /\ LET obj == msg.objects[idx]
           outcome == BodyOutcome(obj)
           list == IF outcome = "keep" THEN AppendObj(filtered_objects, obj)
                   ELSE filtered_objects
           stop == outcome \in {"keep", "drop"} /\ CapReached(list, max_objects)
       IN /\ examined' = examined \cup {idx}
          /\ filtered_objects' = list
          /\ idx' = idx + 1
          /\ pc' = IF outcome = "raise" THEN "raised"
                   ELSE IF stop \/ idx + 1 > Len(msg.objects) THEN "publish"
                   ELSE "loop"
    /\ UNCHANGED <<size_threshold, max_objects, queue, arrived, msg, pub_log,
                   marker_log, n_pub, n_marker_pub, done_log>>

Done(frame, markers) == [in |-> msg, frame |-> frame, markers |-> markers]

\* "if filtered_objects:" and the publication on /obj_det/small_objects
PublishFiltered ==
    /\ pc = "publish"
    /\ IF HasOutput(filtered_objects)
       THEN /\ pub_log' = Append(pub_log, OutMsg(msg, filtered_objects))
            /\ n_pub' = n_pub + 1
            /\ pc' = "markers"
            /\ UNCHANGED done_log
       ELSE /\ pc' = "idle"
            /\ done_log' = Append(done_log, Done(<<>>, <<>>))
            /\ UNCHANGED <<pub_log, n_pub>>
    /\ UNCHANGED <<size_threshold, max_objects, queue, arrived, msg, idx,
                   filtered_objects, marker_log, examined, n_marker_pub>>

\* the marker loop and the publication on /obj_det/small_objects/markers
PublishMarkers ==
    /\ pc = "markers"
    /\ marker_log' = Append(marker_log, MarkerArray(msg.header, filtered_objects))
    /\ n_marker_pub' = n_marker_pub + 1
    /\ pc' = "idle"
    /\ done_log' = Append(done_log,
                          Done(<<pub_log[Len(pub_log)]>>,
                               <<MarkerArray(msg.header, filtered_objects)>>))
    /\ UNCHANGED <<size_threshold, max_objects, queue, arrived, msg, idx,
                   filtered_objects, pub_log, examined, n_pub>>

CbStep == LoopStep \/ PublishFiltered \/ PublishMarkers

Next == Arrive \/ Take \/ LoopStep \/ PublishFiltered \/ PublishMarkers

NextFrame == Take \/ LoopStep \/ PublishFiltered \/ PublishMarkers

\* the node fed by a stream of frames
Spec == Init /\ [][Next]_vars

\* one invocation of cb on one frame
SpecFrame == InitFrame /\ [][NextFrame]_vars

-----------------------------------------------------------------------------
(* Vocabulary of the properties *)

SetMax(S) == CHOOSE x \in S : \A y \in S : y <= x
SetMin(S) == CHOOSE x \in S : \A y \in S : x <= y

Numbers(obj, a) ==
    {obj.corners[i].kp[a].v : i \in {j \in 1..Len(obj.corners) : ~obj.corners[j].kp[a].nan}}

HasNaNCorner(obj) ==
    \E i \in 1..Len(obj.corners) : \E a \in 1..3 : obj.corners[i].kp[a].nan

\* the extent of the corners along axis a is a number below the threshold,
\* not-a-number coordinates being left out of the extent
ExtentBelow(obj, a) ==
    /\ Numbers(obj, a) # {}
    /\ (SetMax(Numbers(obj, a)) - SetMin(Numbers(obj, a))) * 10
          < size_threshold * UnitsPerMetre

ValidPosition(obj) == \A i \in 1..3 : ~obj.position[i].nan

\* qualifying, a not-a-number corner coordinate being ignored
Qualifies(obj) ==
    /\ ValidPosition(obj)
    /\ Len(obj.corners) = 8
    /\ \A a \in 1..3 : ExtentBelow(obj, a)

\* qualifying, a not-a-number corner coordinate making the extent not-a-number
QualifiesStrictly(obj) == Qualifies(obj) /\ ~HasNaNCorner(obj)

FirstN(s, n) == SubSeq(s, 1, IF Len(s) < n THEN Len(s) ELSE n)

RECURSIVE IsSubseq(_, _)
IsSubseq(s, t) ==
    IF s = <<>> THEN TRUE
    ELSE IF t = <<>> THEN FALSE
    ELSE IF Head(s) = Head(t) THEN IsSubseq(Tail(s), Tail(t))
    ELSE IsSubseq(s, Tail(t))

\* the objects an invocation published (none when it published nothing)
Kept(d) == IF d.frame = <<>> THEN <<>> ELSE d.frame[1].objects

Published(d) == d.frame # <<>>

Completed == pc = "idle" /\ done_log # <<>>

-----------------------------------------------------------------------------
(* Properties *)

\* C1: every object of every published filtered frame has a valid position,
\* exactly 8 corners and a largest corner extent strictly below the size
\* threshold.  Violated: Wall (first corner y not-a-number, the other corners
\* spanning 5.0 in y) is published.
C1_FilteredAllQualify ==
    \A i \in 1..Len(pub_log) :
        \A j \in 1..Len(pub_log[i].objects) : Qualifies(pub_log[i].objects[j])

\* C2: the published objects never exceed max_objects and are exactly the
\* first min(q, N) qualifying objects of the input, in input order (under
\* either reading of the extent of a box with a not-a-number coordinate).
C2_FirstQualifying ==
    \A i \in 1..Len(done_log) :
        LET d == done_log[i] IN
        /\ Len(Kept(d)) <= max_objects
        /\ \/ Kept(d) = FirstN(SelectSeq(d.in.objects, Qualifies), max_objects)
           \/ Kept(d) = FirstN(SelectSeq(d.in.objects, QualifiesStrictly), max_objects)

\* C3: an invocation publishes the filtered frame and then the marker array,
\* once each, when an object was kept, and neither otherwise; no empty frame
\* and no marker array without its frame is ever published.
C3_BothOrNeither ==
    /\ n_marker_pub <= n_pub
    /\ n_pub <= 1
    /\ Len(marker_log) <= Len(pub_log)
    /\ \A i \in 1..Len(pub_log) : pub_log[i].objects # <<>>
    /\ \A i \in 1..Len(marker_log) : marker_log[i] # <<>>
    /\ Completed =>
          IF filtered_objects # <<>>
          THEN n_pub = 1 /\ n_marker_pub = 1
          ELSE n_pub = 0 /\ n_marker_pub = 0

C3_Witness ==
    /\ Completed
    /\ filtered_objects # <<>>
    /\ n_pub = 1
    /\ n_marker_pub = 1
    /\ Len(filtered_objects) < Len(msg.objects)

\* C4 as stated: the published objects are a proper subsequence of the input,
\* in input order.  Violated by a frame all of whose objects are kept.
C4_StrictSubsequence ==
    \A i \in 1..Len(done_log) :
        Published(done_log[i]) =>
            /\ IsSubseq(Kept(done_log[i]), done_log[i].in.objects)
            /\ Kept(done_log[i]) # done_log[i].in.objects

\* C4 amended: the published objects are a subsequence of the input, in input
\* order, possibly the whole input.
C4_Subsequence ==
    \A i \in 1..Len(done_log) :
        Published(done_log[i]) =>
            IsSubseq(Kept(done_log[i]), done_log[i].in.objects)

C4_Witness ==
    \E i \in 1..Len(done_log) :
        /\ Published(done_log[i])
        /\ Len(Kept(done_log[i])) >= 2
        /\ Kept(done_log[i])[1] # Kept(done_log[i])[2]
        /\ Len(Kept(done_log[i])) < Len(done_log[i].in.objects)

\* C5: the marker array published for k kept objects has 2k markers, cube then
\* text per object, with ids 2i and 2i+1 for the i-th kept object (0-based),
\* that is the distinct ids 0..2k-1, the text being "<label> (id=<label_id>)".
C5_Markers ==
    \A n \in 1..Len(marker_log) :
        LET kept == pub_log[n].objects
            ms == marker_log[n]
            k == Len(kept)
        IN /\ k >= 1
           /\ Len(ms) = 2 * k
           /\ \A i \in 0..(k - 1) :
                 /\ ms[2 * i + 1].type = "CUBE"
                 /\ ms[2 * i + 1].id = 2 * i
                 /\ ms[2 * i + 2].type = "TEXT_VIEW_FACING"
                 /\ ms[2 * i + 2].id = 2 * i + 1
                 /\ ms[2 * i + 2].text =
                       kept[i + 1].label \o " (id=" \o IntToStr(kept[i + 1].label_id) \o ")"
           /\ {ms[j].id : j \in 1..Len(ms)} = 0..(2 * k - 1)
           /\ \A a, b \in 1..Len(ms) : a # b => ms[a].id # ms[b].id

C5_Witness ==
    /\ Len(marker_log) = 1
    /\ Len(marker_log[1]) = 4
    /\ marker_log[1][2].text = "cup (id=12)"
    /\ marker_log[1][4].text = "ball (id=-3)"
    /\ marker_log[1][4].id = 3

\* the number of steps the running invocation can still take, at most
Remaining ==
    CASE pc = "loop" -> Len(msg.objects) - idx + 3
      [] pc = "publish" -> 2
      [] pc = "markers" -> 1
      [] OTHER -> 0

\* C6: cb never raises; an object with a not-a-number position or a corner
\* count other than 8 is passed over, the scan going on with the next object;
\* and every invocation runs to completion: a started invocation is always at
\* a step it can take (the guard of LoopStep, PublishFiltered or
\* PublishMarkers holds), and each step brings it closer to its return.
C6_NoError ==
    /\ [](pc # "raised")
    /\ [][(/\ pc = "loop"
           /\ \/ ~ValidPosition(msg.objects[idx])
              \/ Len(msg.objects[idx].corners) # 8)
          => (/\ filtered_objects' = filtered_objects
              /\ idx' = idx + 1
              /\ pc' \in {"loop", "publish"})]_vars
    /\ [](pc # "idle" =>
             \/ pc = "loop" /\ idx <= Len(msg.objects)
             \/ pc = "publish"
             \/ pc = "markers")
    /\ [][pc # "idle" => Remaining' < Remaining]_vars

C6_Witness ==
    /\ Completed
    /\ Len(msg.objects) = 3
    /\ msg.objects[1] = Empty
    /\ msg.objects[2] = Ghost
    /\ filtered_objects = <<msg.objects[3]>>

\* C7: the published frame carries the header of the input frame, each of its
\* objects is an object of the input frame, and the input frame is not
\* changed while cb runs.
C7_Unmodified ==
    /\ [](\A i \in 1..Len(done_log) :
             Published(done_log[i]) =>
                /\ done_log[i].frame[1].header = done_log[i].in.header
                /\ \A j \in 1..Len(Kept(done_log[i])) :
                      \E k \in 1..Len(done_log[i].in.objects) :
                          done_log[i].in.objects[k] = Kept(done_log[i])[j])
    /\ [](pc = "markers" => pub_log[Len(pub_log)].header = msg.header)
    /\ [][pc # "idle" => msg' = msg]_vars

C7_Witness ==
    /\ Completed
    /\ Published(done_log[1])
    /\ Len(Kept(done_log[1])) = 2
    /\ Len(msg.objects) = 3
    /\ done_log[1].frame[1].header = Header(1)

\* the outputs of an invocation, headers aside
Outputs(d) ==
    [objects |-> Kept(d),
     published |-> Published(d),
     markers |-> IF d.markers = <<>> THEN <<>>
                 ELSE [k \in 1..Len(d.markers[1]) |->
                          [d.markers[1][k] EXCEPT !.header = Header(0)]]]

\* C8: two invocations on frames with the same objects produce the same
\* outputs whatever was processed before them (the first one was processed
\* alone), and no step changes size_threshold or max_objects.
C8_Stateless ==
    /\ [](\A i, j \in 1..Len(done_log) :
             done_log[i].in.objects = done_log[j].in.objects
                => Outputs(done_log[i]) = Outputs(done_log[j]))
    /\ [](size_threshold = SIZE_THRESHOLD /\ max_objects = MAX_OBJECTS)
    /\ [][size_threshold' = size_threshold /\ max_objects' = max_objects]_vars

C8_Witness ==
    /\ Len(done_log) = 3
    /\ done_log[1].in.objects = done_log[3].in.objects
    /\ done_log[2].in.objects # done_log[1].in.objects
    /\ Published(done_log[1])
    /\ Published(done_log[2])
    /\ Published(done_log[3])

\* C9: once the number of kept objects has reached max_objects, the running
\* invocation examines no further object of its frame.
C9_StopAtCap ==
    [][(pc # "idle" /\ Len(filtered_objects) >= max_objects)
          => examined' = examined]_vars

C9_Witness ==
    /\ Completed
    /\ Len(filtered_objects) = max_objects
    /\ examined = 1..(max_objects + 1)
    /\ Len(msg.objects) = max_objects + 3
    /\ msg.objects[1] = Car

StrictlyIncreasing(s) == \A i, j \in 1..Len(s) : i < j => s[i] < s[j]

\* C10: a frame is taken only when the previous invocation has completed, and
\* the frames and the marker arrays are published in the order their input
\* frames arrived, a frame without kept object leaving no output.
C10_Order ==
    /\ [](StrictlyIncreasing([i \in 1..Len(pub_log) |-> pub_log[i].header.stamp]))
    /\ [](StrictlyIncreasing([i \in 1..Len(marker_log) |-> marker_log[i][1].header.stamp]))
    /\ [](StrictlyIncreasing([i \in 1..Len(done_log) |-> done_log[i].in.header.stamp]))
    /\ [](\A i \in 1..Len(done_log) :
             ~Published(done_log[i]) =>
                 \A n \in 1..Len(pub_log) :
                     pub_log[n].header.stamp # done_log[i].in.header.stamp)
    /\ [](pc # "idle" =>
             /\ \A n \in 1..Len(pub_log) : pub_log[n].header.stamp <= msg.header.stamp
             /\ \A n \in 1..Len(queue) : queue[n].header.stamp > msg.header.stamp)
    /\ [][msg' # msg => (pc = "idle" /\ msg' = Head(queue))]_vars

C10_Witness ==
    /\ Len(done_log) = 3
    /\ Len(pub_log) = 2
    /\ Len(marker_log) = 2
    /\ ~Published(done_log[2])
    /\ pub_log[2].header.stamp = 3

====
